---- MODULE Spec2Model ----
(***************************************************************************)
(* Model of src/main.rs: a Transport trait with a plaintext (tcp) and a    *)
(* TLS binding, the echo server (serve_echo + echo) and the client probe   *)
(* (send_hello), driven by main/run.                                       *)
(*                                                                         *)
(* The main task is one process (pc); every accepted connection gets its   *)
(* own tokio task running echo (hpc[c]).  The peers of the server and the  *)
(* peer of the probe are the environment.                                  *)
(***************************************************************************)
EXTENDS Integers, Sequences, FiniteSets

\* ---------------------------------------------------------------- bounds
\* Capacity of echo's buffer.  The code uses 2048 (main.rs:132); the model
\* scales it down so that reads shorter than, equal to and capped by the
\* capacity all occur.
BufLen == 2
\* Number of inbound connections the environment opens.
MaxConn == 2
\* Number of bytes the environment sends in total during a run.
MaxSend == 3

Conns == 1..MaxConn

\* The k-th byte the peer of connection c sends (c = 0: the k-th byte the
\* remote server sends to the probe).  Neither echo nor io::copy looks at
\* the value of a byte, so one content stands for all; it is chosen so that
\* every byte differs from every other byte sent, on any connection, and
\* from the zero the buffer starts with.
PayloadByte(c, k) == 10 * c + k
PayloadBytes(c) == {PayloadByte(c, k) : k \in 1..MaxSend}

\* "hello".as_bytes()
Hello == <<104, 101, 108, 108, 111>>

Min(a, b) == IF a <= b THEN a ELSE b
Max(a, b) == IF a >= b THEN a ELSE b

VARIABLES
    transport,   \* args[1]
    mode,        \* args[2]
    cfg,         \* the TlsConfig: which of its Option fields are Some
    caOk,        \* ca-cert.pem can be read and parsed
    identOk,     \* identity.pfx can be read and opened with the passphrase
    addrFree,    \* 0.0.0.0:2334 can be bound
    peerUp,      \* 127.0.0.1:2334 accepts a TCP connection
    peerTrusted, \* the remote certificate verifies against the connector
    pc,          \* position of the main task ("panicked": it unwound)
    err,         \* error main returns ("none" for Ok)
    listening,   \* the TcpListener exists
    backlog,     \* inbound connections not yet accepted, oldest first
    nConn,       \* inbound connections opened so far
    hsConn,      \* connection whose TLS handshake accept is awaiting, or 0
    nAccept,     \* calls of transport.accept that have returned
    acceptFailed,\* some call of transport.accept returned Err
    stream,      \* stream[c]: state of the socket of connection c
    secure,      \* secure[c]: the TLS handshake on connection c has completed
    hpc,         \* hpc[c]: position of the task running echo on connection c
    buf,         \* buf[c]: echo's local buffer
    n,           \* n[c]: echo's local c, the result of the last read
    hw,          \* hw[c]: largest result of a read so far
    got,         \* got[c]: the bytes the last read returned
    inbox,       \* inbox[c]: bytes sent by the peer, not yet read
    peerClosed,  \* peerClosed[c]: the peer shut down its sending side
    broken,      \* broken[c]: the connection failed (reset, network error)
    wrote,       \* wrote[c]: echo called write_all at least once
    out,         \* out[c]: bytes the last write_all delivered to the peer
    sent,        \* bytes the probe has written to its stream
    rx,          \* bytes sent to the probe, not yet read by io::copy
    stdout,      \* bytes the probe has copied to standard output
    rxEof,       \* the remote server closed the probe's stream
    rxBroken,    \* the probe's stream failed
    sentOn,      \* sentOn[c]: bytes the peer of c has sent on its connection
    nSent,       \* bytes the environment has sent so far
    ppc          \* position of a second process of the program, run as the
                 \* probe against this server ("none": there is none)

envVars == <<transport, mode, cfg, caOk, identOk, addrFree, peerUp, peerTrusted>>
mainVars == <<pc, err, listening>>
acceptVars == <<backlog, nConn, hsConn, nAccept, acceptFailed>>
connVars == <<stream, secure, hpc, buf, n, hw, got, inbox, sentOn, peerClosed, broken,
             wrote, out>>
probeVars == <<sent, rx, stdout, rxEof, rxBroken, nSent>>
vars == <<envVars, mainVars, acceptVars, connVars, probeVars, ppc>>

\* let mut buf = [0u8; 2048];
ZeroBuf == [i \in 1..BufLen |-> 0]

\* The values of TlsConfig, each Option field read as "is Some".  The
\* hostname field is left out: it only chooses the name the peer is
\* verified against, and peerTrusted is the outcome of that verification.
TlsConfigs == [trusted_root : BOOLEAN, pkcs12 : BOOLEAN, pkcs12_password : BOOLEAN]

\* let config = TlsConfig { trusted_root: Some(..), pkcs12: Some(..),
\*                          pkcs12_password: Some(..), hostname: Some(..) };
MainConfig == [trusted_root |-> TRUE, pkcs12 |-> TRUE, pkcs12_password |-> TRUE]

\* The state when main starts with a TlsConfig out of configs, and a
\* second process at one of the positions starts.
InitWith(configs, starts) ==
    /\ transport \in {"tcp", "tls", "udp"}
    /\ mode \in {"serve", "client", "bench"}
    /\ ppc \in starts
    \* a field or a fact of the environment the invocation never consults
    \* is fixed
    /\ cfg \in {g \in configs :
                  /\ transport # "tls" => g = MainConfig
                  /\ mode # "serve" => g.pkcs12 /\ g.pkcs12_password}
    /\ caOk \in (IF transport = "tls" /\ cfg.trusted_root THEN BOOLEAN ELSE {TRUE})
    /\ identOk \in (IF transport = "tls" /\ mode = "serve" /\ cfg.pkcs12
                      THEN BOOLEAN ELSE {TRUE})
    /\ addrFree \in (IF mode = "serve" THEN BOOLEAN ELSE {TRUE})
    /\ peerUp \in (IF mode = "client" THEN BOOLEAN ELSE {TRUE})
    /\ peerTrusted \in (IF transport = "tls" /\ (mode = "client" \/ ppc # "none")
                          THEN BOOLEAN ELSE {TRUE})
    /\ pc = "main"
    /\ err = "none"
    /\ listening = FALSE
    /\ backlog = <<>>
    /\ nConn = 0
    /\ hsConn = 0
    /\ nAccept = 0
    /\ acceptFailed = FALSE
    /\ stream = [c \in Conns |-> "none"]
    /\ secure = [c \in Conns |-> FALSE]
    /\ hpc = [c \in Conns |-> "none"]
    /\ buf = [c \in Conns |-> ZeroBuf]
    /\ n = [c \in Conns |-> 0]
    /\ hw = [c \in Conns |-> 0]
    /\ got = [c \in Conns |-> <<>>]
    /\ inbox = [c \in Conns |-> <<>>]
    /\ peerClosed = [c \in Conns |-> FALSE]
    /\ broken = [c \in Conns |-> FALSE]
    /\ wrote = [c \in Conns |-> FALSE]
    /\ out = [c \in Conns |-> <<>>]
    /\ sent = <<>>
    /\ rx = <<>>
    /\ stdout = <<>>
    /\ rxEof = FALSE
    /\ rxBroken = FALSE
    /\ sentOn = [c \in Conns |-> 0]
    /\ nSent = 0

\* main builds the TlsConfig from literals, every field Some.
Init == InitWith({MainConfig}, {"none"})

\* ------------------------------------------------------------ main, run
\* match t.as_ref() { "tcp" => run(TcpTransport::new(), mode).await, .. }
main_tcp ==
    /\ pc = "main"
    /\ transport = "tcp"
    /\ pc' = "run"
    /\ UNCHANGED <<envVars, ppc, err, listening, acceptVars, connVars, probeVars>>

\* "tls" => run(TlsTransport::new(config).await?, mode).await
\* TlsTransport::new reads and parses the trusted root when the field is
\* Some, and leaves the connector None when it is not.
main_tls ==
    /\ pc = "main"
    /\ transport = "tls"
    /\ IF ~cfg.trusted_root \/ caOk
          THEN pc' = "run" /\ err' = err
          ELSE pc' = "exited" /\ err' = "trusted root"
    /\ UNCHANGED <<envVars, ppc, listening, acceptVars, connVars, probeVars>>

\* _ => Err(anyhow!("unknown transport"))
main_unknown ==
    /\ pc = "main"
    /\ transport \notin {"tcp", "tls"}
    /\ pc' = "exited"
    /\ err' = "unknown transport"
    /\ UNCHANGED <<envVars, ppc, listening, acceptVars, connVars, probeVars>>

\* match mode.as_ref() { "serve" => .., "client" => .., _ => Err(..) }
run ==
    /\ pc = "run"
    /\ CASE mode = "serve"  -> pc' = "bind" /\ err' = err
         [] mode = "client" -> pc' = "connect" /\ err' = err
         [] OTHER           -> pc' = "exited" /\ err' = "unknown mode"
    /\ UNCHANGED <<envVars, ppc, listening, acceptVars, connVars, probeVars>>

\* ------------------------------------------------------------ serve_echo
\* serve_echo that goes on to the accept loop whatever bind returned.
TcpTransport_bind_unchecked ==
    /\ pc = "bind"
    /\ transport = "tcp"
    /\ pc' = "accept"
    /\ err' = err
    /\ listening' = addrFree
    /\ UNCHANGED <<envVars, ppc, acceptVars, connVars, probeVars>>

\* transport.bind(&addr).await.with_context(|| "Failed to bind")?
\* TcpTransport::bind: TcpListener::bind(addr).await?
TcpTransport_bind ==
    /\ pc = "bind"
    /\ transport = "tcp"
    /\ IF addrFree
          THEN pc' = "accept" /\ err' = err /\ listening' = TRUE
          ELSE pc' = "exited" /\ err' = "Failed to bind" /\ listening' = listening
    /\ UNCHANGED <<envVars, ppc, acceptVars, connVars, probeVars>>

\* TlsTransport::bind that opens the listening socket first and leaves
\* the identity to be loaded when a connection arrives.
TlsTransport_bind_lazyIdentity ==
    /\ pc = "bind"
    /\ transport = "tls"
    /\ IF addrFree
          THEN pc' = "accept" /\ err' = err /\ listening' = TRUE
          ELSE pc' = "exited" /\ err' = "Failed to bind" /\ listening' = listening
    /\ UNCHANGED <<envVars, ppc, acceptVars, connVars, probeVars>>

\* The arguments of Identity::from_pkcs12 in TlsTransport::bind, evaluated
\* in order: pkcs12.as_ref().unwrap(), fs::read(..).await?, then
\* pkcs12_password.as_ref().unwrap(); the bundle is opened after them.
\* unwrap of None panics.  identOk false leaves open whether the file was
\* unreadable (the ? returns before the second unwrap) or read but not
\* opened (the second unwrap is reached), so both outcomes are possible.
IdentityOutcomes ==
    CASE ~cfg.pkcs12          -> {"panic"}
      [] ~cfg.pkcs12_password -> IF identOk THEN {"panic"} ELSE {"panic", "err"}
      [] ~identOk             -> {"err"}
      [] OTHER                -> {"ok"}

\* TlsTransport::bind: the identity is read and opened first, the listener
\* is bound after it.
TlsTransport_bind ==
    /\ pc = "bind"
    /\ transport = "tls"
    /\ \E o \in IdentityOutcomes :
          CASE o = "panic" -> pc' = "panicked" /\ err' = err /\ listening' = listening
            [] o = "err"   -> pc' = "exited" /\ err' = "Failed to bind" /\ listening' = listening
            [] ~addrFree   -> pc' = "exited" /\ err' = "Failed to bind" /\ listening' = listening
            [] OTHER       -> pc' = "accept" /\ err' = err /\ listening' = TRUE
    /\ UNCHANGED <<envVars, ppc, acceptVars, connVars, probeVars>>

Running(c) == hpc[c] \in {"reading", "writing"}

\* What becomes of a spawned task when main returns: #[tokio::main] runs
\* main's body with block_on and drops the runtime when it returns; a task
\* that has not finished is dropped at its current await.
AtShutdown(h) == IF h \in {"reading", "writing"} THEN "cancelled" ELSE h

\* The tasks and sockets when the main task goes to position p, st being
\* the sockets as the step leaves them otherwise.  At the exit the listener
\* goes with serve_echo's frame and its backlog, and every unfinished task
\* goes with the runtime, its stream and its locals with it.  Between the
\* Err of accept and the end of main the main task awaits nothing; a step
\* another worker thread lets a handler take meanwhile is the same step
\* taken before the Err, so the exit is one step.
MainGoes(p, st) ==
    IF p = "exited"
       THEN /\ listening' = FALSE
            /\ hpc' = [c \in Conns |-> AtShutdown(hpc[c])]
            /\ stream' = [c \in Conns |->
                            IF Running(c) \/ st[c] = "pending" THEN "closed" ELSE st[c]]
            /\ buf' = [c \in Conns |-> IF Running(c) THEN ZeroBuf ELSE buf[c]]
            /\ n' = [c \in Conns |-> IF Running(c) THEN 0 ELSE n[c]]
            /\ got' = [c \in Conns |-> IF Running(c) THEN <<>> ELSE got[c]]
            /\ hw' = [c \in Conns |-> IF Running(c) THEN 0 ELSE hw[c]]
            /\ inbox' = [c \in Conns |-> <<>>]
            /\ sentOn' = [c \in Conns |-> 0]
            /\ peerClosed' = [c \in Conns |-> FALSE]
            /\ broken' = [c \in Conns |-> FALSE]
       ELSE /\ stream' = st
            /\ UNCHANGED <<listening, hpc, buf, n, got, hw, inbox, sentOn, peerClosed, broken>>

\* tokio::spawn(async move { let _ = echo::<T>(conn).await; });
\* The new task starts at echo's first read with a zeroed buffer.
Spawn(h, c) == [h EXCEPT ![c] = "reading"]

\* The loop awaits the handler it spawned before it accepts again.
AfterSpawn_joined == "join"

\* Where the accept loop is after a stream was accepted and its handler
\* spawned: the while-let evaluates transport.accept again.
AfterSpawn == "accept"

\* The loop ignores the error and calls accept again.
AfterAcceptErr_retry == "accept"

\* Where the main task is after transport.accept returned Err: the
\* while-let pattern does not match, the loop ends, serve_echo returns Ok
\* and so do run and main, with no await on the way.
AfterAcceptErr == "exited"

\* TcpTransport::accept returned Ok: the oldest pending connection is taken
\* and, in the same poll of the main task, its handler is spawned.
TcpTransport_accept_ok ==
    /\ pc = "accept"
    /\ transport = "tcp"
    /\ backlog # <<>>
    /\ LET c == Head(backlog) IN
          /\ stream' = [stream EXCEPT ![c] = "open"]
          /\ hpc' = Spawn(hpc, c)
    /\ backlog' = Tail(backlog)
    /\ nAccept' = nAccept + 1
    /\ pc' = AfterSpawn
    /\ UNCHANGED <<envVars, ppc, err, listening, nConn, hsConn, acceptFailed, secure,
                   buf, n, hw, got, inbox, sentOn, peerClosed, broken, wrote, out, probeVars>>

\* serve_echo returns the Err of accept instead of leaving the loop with
\* it: main returns the error.
accept_err_reported ==
    /\ pc = "accept"
    /\ nAccept' = nAccept + 1
    /\ acceptFailed' = TRUE
    /\ pc' = AfterAcceptErr
    /\ err' = "accept"
    /\ MainGoes(AfterAcceptErr, stream)
    /\ UNCHANGED <<envVars, ppc, backlog, nConn, hsConn, secure, wrote, out, probeVars>>

\* a.accept().await? returned Err (TcpTransport::accept, or the first line of
\* TlsTransport::accept).
accept_err ==
    /\ pc = "accept"
    /\ nAccept' = nAccept + 1
    /\ acceptFailed' = TRUE
    /\ pc' = AfterAcceptErr
    /\ MainGoes(AfterAcceptErr, stream)
    /\ UNCHANGED <<envVars, ppc, err, backlog, nConn, hsConn, secure, wrote, out, probeVars>>

\* The handshake runs apart from the loop: with the raw socket taken, the
\* loop is back at the listener.
AfterTcpAccept_detached == "accept"

\* Where TlsTransport::accept is after a.0.accept() returned a socket: at
\* the await of a.1.accept(conn), the server side of the handshake.
AfterTcpAccept == "handshake"

\* accept returns the socket without the handshake, and serve_echo spawns
\* the handler on it.
TlsTransport_accept_tcp_unshaken ==
    /\ pc = "accept"
    /\ transport = "tls"
    /\ backlog # <<>>
    /\ LET c == Head(backlog) IN
          /\ stream' = [stream EXCEPT ![c] = "open"]
          /\ hpc' = Spawn(hpc, c)
    /\ backlog' = Tail(backlog)
    /\ nAccept' = nAccept + 1
    /\ pc' = AfterSpawn
    /\ UNCHANGED <<envVars, ppc, err, listening, nConn, hsConn, acceptFailed, secure,
                   buf, n, hw, got, inbox, sentOn, peerClosed, broken, wrote, out, probeVars>>

\* TlsTransport::accept, line 105: the listener hands over a raw socket.
TlsTransport_accept_tcp ==
    /\ pc = "accept"
    /\ transport = "tls"
    /\ backlog # <<>>
    /\ LET c == Head(backlog) IN
          /\ stream' = [stream EXCEPT ![c] = "handshake"]
          /\ hsConn' = c
    /\ backlog' = Tail(backlog)
    /\ pc' = AfterTcpAccept
    /\ UNCHANGED <<envVars, ppc, err, listening, nConn, nAccept, acceptFailed, secure,
                   hpc, buf, n, hw, got, inbox, sentOn, peerClosed, broken, wrote, out, probeVars>>

\* TlsTransport::accept, line 106, handshake completed: accept returns the
\* TlsStream and serve_echo spawns its handler.
TlsTransport_accept_ok ==
    /\ pc = "handshake"
    /\ stream' = [stream EXCEPT ![hsConn] = "open"]
    /\ secure' = [secure EXCEPT ![hsConn] = TRUE]
    /\ hpc' = Spawn(hpc, hsConn)
    /\ hsConn' = 0
    /\ nAccept' = nAccept + 1
    /\ pc' = AfterSpawn
    /\ UNCHANGED <<envVars, ppc, err, listening, backlog, nConn, acceptFailed,
                   buf, n, hw, got, inbox, sentOn, peerClosed, broken, wrote, out, probeVars>>

\* Where the accept loop is after the handshake of an accepted socket
\* failed: a.1.accept(conn).await? makes transport.accept return Err, which
\* the while-let treats like every other Err.
AfterHandshakeErr == AfterAcceptErr

\* TlsTransport::accept, line 106, handshake failed: the raw socket is
\* dropped and the error is returned to serve_echo.
TlsTransport_accept_hs_err ==
    /\ pc = "handshake"
    /\ hsConn' = 0
    /\ nAccept' = nAccept + 1
    /\ acceptFailed' = TRUE
    /\ pc' = AfterHandshakeErr
    /\ MainGoes(AfterHandshakeErr, [stream EXCEPT ![hsConn] = "hs_failed"])
    /\ UNCHANGED <<envVars, ppc, err, backlog, nConn, secure, wrote, out, probeVars>>

\* ------------------------------------------------------------------ echo
\* A read that stores the bytes behind the first cell instead of at the
\* front of the buffer.
ReadInto_shifted(b, data) ==
    [i \in 1..BufLen |-> IF i > 1 /\ i - 1 <= Len(data) THEN data[i - 1] ELSE b[i]]

\* conn.read(&mut buf): the bytes returned overwrite the front of the
\* buffer, the rest of the buffer keeps what it held.
ReadInto(b, data) ==
    [i \in 1..BufLen |-> IF i <= Len(data) THEN data[i] ELSE b[i]]

\* Every handler works on the stream of the first connection, as if the
\* stream were a value shared by the tasks instead of moved into each.
StreamOf_shared(c) == 1

\* The stream the handler of connection c reads: conn is moved into the
\* spawned task, so it is the stream accept returned for c.
StreamOf(c) == c

\* write_all(&buf[..c]): only the bytes the last read returned.
WriteArg_onlyRead(b, k) == SubSeq(b, 1, k)

\* The argument of conn.write_all(&buf): the whole buffer.
WriteArg(b, k) == b

\* let c = conn.read(&mut buf).await?   with c > 0
echo_read(c) ==
    /\ hpc[c] = "reading"
    /\ ~broken[StreamOf(c)]
    /\ inbox[StreamOf(c)] # <<>>
    /\ \E k \in 1..Min(Len(inbox[StreamOf(c)]), BufLen) :
          LET data == SubSeq(inbox[StreamOf(c)], 1, k) IN
          /\ buf' = [buf EXCEPT ![c] = ReadInto(buf[c], data)]
          /\ n' = [n EXCEPT ![c] = k]
          /\ hw' = [hw EXCEPT ![c] = Max(hw[c], k)]
          /\ got' = [got EXCEPT ![c] = data]
          /\ inbox' = [inbox EXCEPT ![StreamOf(c)] =
                          SubSeq(inbox[StreamOf(c)], k + 1, Len(inbox[StreamOf(c)]))]
    /\ hpc' = [hpc EXCEPT ![c] = "writing"]
    /\ UNCHANGED <<envVars, ppc, mainVars, acceptVars, stream, secure, sentOn, peerClosed, broken,
                   wrote, out, probeVars>>

\* echo returns r while the stream stays with somebody else: the socket is
\* not closed when the handler ends.
EchoReturns_leak(c, r) ==
    /\ hpc' = [hpc EXCEPT ![c] = r]
    /\ stream' = stream
    /\ buf' = [buf EXCEPT ![c] = ZeroBuf]
    /\ n' = [n EXCEPT ![c] = 0]
    /\ got' = [got EXCEPT ![c] = <<>>]
    /\ hw' = [hw EXCEPT ![c] = 0]
    /\ inbox' = [inbox EXCEPT ![StreamOf(c)] = <<>>]
    /\ sentOn' = [sentOn EXCEPT ![StreamOf(c)] = 0]
    /\ peerClosed' = [peerClosed EXCEPT ![StreamOf(c)] = FALSE]
    /\ broken' = [broken EXCEPT ![StreamOf(c)] = FALSE]

\* echo returns r: its locals are gone, conn is dropped and the socket
\* closed; with the socket go the bytes the handler had not read and
\* whatever the peer did to the connection.
EchoReturns(c, r) ==
    /\ hpc' = [hpc EXCEPT ![c] = r]
    /\ stream' = [stream EXCEPT ![StreamOf(c)] = "closed"]
    /\ buf' = [buf EXCEPT ![c] = ZeroBuf]
    /\ n' = [n EXCEPT ![c] = 0]
    /\ got' = [got EXCEPT ![c] = <<>>]
    /\ hw' = [hw EXCEPT ![c] = 0]
    /\ inbox' = [inbox EXCEPT ![StreamOf(c)] = <<>>]
    /\ sentOn' = [sentOn EXCEPT ![StreamOf(c)] = 0]
    /\ peerClosed' = [peerClosed EXCEPT ![StreamOf(c)] = FALSE]
    /\ broken' = [broken EXCEPT ![StreamOf(c)] = FALSE]

\* The test of c comes after the write: the buffer is written once more
\* before echo returns.
echo_read_eof_written(c) ==
    /\ hpc[c] = "reading"
    /\ ~broken[StreamOf(c)]
    /\ inbox[StreamOf(c)] = <<>>
    /\ peerClosed[StreamOf(c)]
    /\ out' = [out EXCEPT ![StreamOf(c)] = buf[c]]
    /\ wrote' = [wrote EXCEPT ![c] = TRUE]
    /\ EchoReturns(c, "ret_ok")
    /\ UNCHANGED <<envVars, ppc, mainVars, acceptVars, secure, probeVars>>

\* read returned 0: break; Ok(()).
echo_read_eof(c) ==
    /\ hpc[c] = "reading"
    /\ ~broken[StreamOf(c)]
    /\ inbox[StreamOf(c)] = <<>>
    /\ peerClosed[StreamOf(c)]
    /\ EchoReturns(c, "ret_ok")
    /\ UNCHANGED <<envVars, ppc, mainVars, acceptVars, secure, wrote, out, probeVars>>

\* The spawned block propagates echo's error into serve_echo, which
\* returns it.
echo_read_err_propagated(c) ==
    /\ hpc[c] = "reading"
    /\ broken[StreamOf(c)]
    /\ EchoReturns(c, "ret_err")
    /\ pc' = "exited"
    /\ err' = "io"
    /\ UNCHANGED <<envVars, ppc, listening, acceptVars, secure, wrote, out, probeVars>>

\* conn.read(&mut buf).await? returned Err: echo returns it; the spawned
\* block binds it to _ and ends.
echo_read_err(c) ==
    /\ hpc[c] = "reading"
    /\ broken[StreamOf(c)]
    /\ EchoReturns(c, "ret_err")
    /\ UNCHANGED <<envVars, ppc, mainVars, acceptVars, secure, wrote, out, probeVars>>

\* The connection the probe process has with the server: the probe is the
\* only client of the pair, so its connection is the first to arrive.
ProbeConn == 1

\* The probe process holds the other end of connection c.
ProbeHolds(c) == c = ProbeConn /\ ppc \in {"handshake", "write", "copy"}

\* What the probe has pending to read after bytes were written to
\* connection c: they arrive at the probe when it is the peer of c.
Delivered(c, bytes) == IF ProbeHolds(c) THEN rx \o bytes ELSE rx

\* conn.write_all(&buf).await? returned Ok
echo_write(c) ==
    /\ hpc[c] = "writing"
    /\ ~broken[StreamOf(c)]
    /\ out' = [out EXCEPT ![StreamOf(c)] = WriteArg(buf[c], n[c])]
    /\ rx' = Delivered(StreamOf(c), WriteArg(buf[c], n[c]))
    /\ wrote' = [wrote EXCEPT ![c] = TRUE]
    /\ hpc' = [hpc EXCEPT ![c] = "reading"]
    /\ UNCHANGED <<envVars, ppc, mainVars, acceptVars, stream, secure, buf, n, hw, got,
                   inbox, sentOn, peerClosed, broken, sent, stdout, rxEof, rxBroken, nSent>>

\* conn.write_all(&buf).await? returned Err after delivering k < len bytes
echo_write_err(c) ==
    /\ hpc[c] = "writing"
    /\ broken[StreamOf(c)]
    /\ \E k \in 0..(Len(WriteArg(buf[c], n[c])) - 1) :
          /\ out' = [out EXCEPT ![StreamOf(c)] = SubSeq(WriteArg(buf[c], n[c]), 1, k)]
          /\ rx' = Delivered(StreamOf(c), SubSeq(WriteArg(buf[c], n[c]), 1, k))
    /\ wrote' = [wrote EXCEPT ![c] = TRUE]
    /\ EchoReturns(c, "ret_err")
    /\ UNCHANGED <<envVars, ppc, mainVars, acceptVars, secure, sent, stdout, rxEof,
                   rxBroken, nSent>>

\* ----------------------------------------------- peers of the server
\* A peer connects; connections are numbered in the order they arrive.
peer_connect ==
    /\ listening
    /\ nConn < MaxConn
    /\ nConn' = nConn + 1
    /\ stream' = [stream EXCEPT ![nConn + 1] = "pending"]
    /\ backlog' = Append(backlog, nConn + 1)
    /\ UNCHANGED <<envVars, ppc, mainVars, hsConn, nAccept, acceptFailed, secure, hpc, buf, n, hw,
                   got, inbox, sentOn, peerClosed, broken, wrote, out, probeVars>>

\* A peer may send once its connect returned: for tcp as soon as the
\* connection is in the backlog, for tls once the handshake is done.
PeerMaySend(c) ==
    /\ ~peerClosed[c]
    /\ ~broken[c]
    /\ \/ stream[c] = "open" /\ (transport = "tls" => secure[c])
       \/ transport = "tcp" /\ stream[c] = "pending"

peer_send(c) ==
    /\ PeerMaySend(c)
    /\ nSent < MaxSend
    /\ inbox' = [inbox EXCEPT ![c] = Append(inbox[c], PayloadByte(c, sentOn[c] + 1))]
    /\ sentOn' = [sentOn EXCEPT ![c] = @ + 1]
    /\ nSent' = nSent + 1
    /\ UNCHANGED <<envVars, ppc, mainVars, acceptVars, stream, secure, hpc, buf, n, hw, got,
                   peerClosed, broken, wrote, out, sent, rx, stdout, rxEof, rxBroken>>

\* The peer shuts down its sending side: the handler reads end-of-stream
\* after the bytes already sent.
peer_close(c) ==
    /\ PeerMaySend(c)
    /\ peerClosed' = [peerClosed EXCEPT ![c] = TRUE]
    /\ UNCHANGED <<envVars, ppc, mainVars, acceptVars, stream, secure, hpc, buf, n, hw, got,
                   inbox, sentOn, broken, wrote, out, probeVars>>

\* The connection fails (reset by the peer, network error): the handler's
\* next read or write returns Err.
peer_reset(c) ==
    /\ stream[c] = "open"
    /\ ~broken[c]
    /\ broken' = [broken EXCEPT ![c] = TRUE]
    /\ UNCHANGED <<envVars, ppc, mainVars, acceptVars, stream, secure, hpc, buf, n, hw, got,
                   inbox, sentOn, peerClosed, wrote, out, probeVars>>

\* ------------------------------------------------------------ send_hello
\* TcpTransport::connect: TcpStream::connect(addr).await?
TcpTransport_connect ==
    /\ pc = "connect"
    /\ transport = "tcp"
    /\ IF peerUp
          THEN pc' = "write" /\ err' = err
          ELSE pc' = "exited" /\ err' = "connect"
    /\ UNCHANGED <<envVars, ppc, listening, acceptVars, connVars, probeVars>>

\* TlsTransport::connect with a connector that accepts any peer
\* identity: the handshake succeeds whatever the trust store holds.
TlsTransport_connect_unverified ==
    /\ pc = "connect"
    /\ transport = "tls"
    /\ IF peerUp
          THEN pc' = "write" /\ err' = err
          ELSE pc' = "exited" /\ err' = "connect"
    /\ UNCHANGED <<envVars, ppc, listening, acceptVars, connVars, probeVars>>

\* TlsTransport::connect: TcpStream::connect, then connector.as_ref()
\* .unwrap(), which panics on the None that new leaves without a trusted
\* root, then the client side of the handshake, which verifies the peer
\* against the connector's trust store.
TlsTransport_connect ==
    /\ pc = "connect"
    /\ transport = "tls"
    /\ CASE ~peerUp           -> pc' = "exited" /\ err' = "connect"
         [] ~cfg.trusted_root -> pc' = "panicked" /\ err' = err
         [] ~peerTrusted      -> pc' = "exited" /\ err' = "verify"
         [] OTHER             -> pc' = "write" /\ err' = err
    /\ UNCHANGED <<envVars, ppc, listening, acceptVars, connVars, probeVars>>

\* conn.write_all(req.as_bytes()).await?
send_hello_write ==
    /\ pc = "write"
    /\ IF rxBroken
          THEN pc' = "exited" /\ err' = "io" /\ sent' = sent
          ELSE pc' = "copy" /\ err' = err /\ sent' = sent \o Hello
    /\ UNCHANGED <<envVars, ppc, listening, acceptVars, connVars, rx, stdout, rxEof,
                   rxBroken, nSent>>

\* io::copy(&mut conn, &mut io::stdout()): one chunk read and written out
send_hello_copy ==
    /\ pc = "copy"
    /\ ~rxBroken
    /\ rx # <<>>
    /\ \E k \in 1..Len(rx) :
          /\ stdout' = stdout \o SubSeq(rx, 1, k)
          /\ rx' = SubSeq(rx, k + 1, Len(rx))
    /\ UNCHANGED <<envVars, ppc, mainVars, acceptVars, connVars, sent, rxEof, rxBroken, nSent>>

\* io::copy that returns Ok as soon as no byte is pending, whether or not
\* the peer has closed.
send_hello_copy_idle ==
    /\ pc = "copy"
    /\ ~rxBroken
    /\ rx = <<>>
    /\ pc' = "exited"
    /\ UNCHANGED <<envVars, ppc, err, listening, acceptVars, connVars, probeVars>>

\* io::copy read end-of-stream: Ok(())
send_hello_copy_eof ==
    /\ pc = "copy"
    /\ ~rxBroken
    /\ rx = <<>>
    /\ rxEof
    /\ pc' = "exited"
    /\ UNCHANGED <<envVars, ppc, err, listening, acceptVars, connVars, probeVars>>

\* io::copy(..).await? returned Err
send_hello_copy_err ==
    /\ pc = "copy"
    /\ rxBroken
    /\ pc' = "exited"
    /\ err' = "io"
    /\ UNCHANGED <<envVars, ppc, listening, acceptVars, connVars, probeVars>>

\* -------------------------------------------------- peer of the probe
remote_send ==
    /\ pc \in {"write", "copy"}
    /\ ~rxEof
    /\ ~rxBroken
    /\ nSent < MaxSend
    /\ rx' = Append(rx, PayloadByte(0, nSent + 1))
    /\ nSent' = nSent + 1
    /\ UNCHANGED <<envVars, ppc, mainVars, acceptVars, connVars, sent, stdout, rxEof, rxBroken>>

remote_close ==
    /\ pc \in {"write", "copy"}
    /\ ~rxEof
    /\ ~rxBroken
    /\ rxEof' = TRUE
    /\ UNCHANGED <<envVars, ppc, mainVars, acceptVars, connVars, sent, rx, stdout, rxBroken, nSent>>

remote_reset ==
    /\ pc \in {"write", "copy"}
    /\ ~rxBroken
    /\ rxBroken' = TRUE
    /\ UNCHANGED <<envVars, ppc, mainVars, acceptVars, connVars, sent, rx, stdout, rxEof, nSent>>

Next ==
    \/ main_tcp
    \/ main_tls
    \/ main_unknown
    \/ run
    \/ TcpTransport_bind
    \/ TlsTransport_bind
    \/ TcpTransport_accept_ok
    \/ accept_err
    \/ TlsTransport_accept_tcp
    \/ TlsTransport_accept_ok
    \/ TlsTransport_accept_hs_err
    \/ \E c \in Conns : echo_read(c)
    \/ \E c \in Conns : echo_read_eof(c)
    \/ \E c \in Conns : echo_read_err(c)
    \/ \E c \in Conns : echo_write(c)
    \/ \E c \in Conns : echo_write_err(c)
    \/ peer_connect
    \/ \E c \in Conns : peer_send(c)
    \/ \E c \in Conns : peer_close(c)
    \/ \E c \in Conns : peer_reset(c)
    \/ TcpTransport_connect
    \/ TlsTransport_connect
    \/ send_hello_write
    \/ send_hello_copy
    \/ send_hello_copy_eof
    \/ send_hello_copy_err
    \/ remote_send
    \/ remote_close
    \/ remote_reset

Spec == Init /\ [][Next]_vars

\* The same program with the TlsConfig literal of main replaced by any
\* value of the type: what TlsTransport does with a config whose fields
\* may be None.
InitConfig == InitWith(TlsConfigs, {"none"})

SpecConfig == InitConfig /\ [][Next]_vars

\* ------------------------------------- the probe as a second process
\* The pair: the server is the process of pc, and the same program started
\* with the same transport and the mode client is the process of ppc.  Its
\* stream is connection ProbeConn of the server; what the handler writes
\* arrives in rx, what the probe writes arrives in the handler's inbox.

\* main and run of the probe process; with tls, TlsTransport::new comes
\* first and reads the same trusted root.
probe_start ==
    /\ ppc = "start"
    /\ ppc' = IF transport = "tls" /\ ~caOk THEN "failed" ELSE "connect"
    /\ UNCHANGED <<envVars, mainVars, acceptVars, connVars, probeVars>>

\* TcpStream::connect("127.0.0.1:2334").await?: the connection enters the
\* listener's backlog, or is refused when nothing listens.  The plain
\* transport returns the stream; TlsTransport::connect goes on to the
\* handshake.
probe_connect ==
    /\ ppc = "connect"
    /\ nConn = 0
    /\ IF listening
          THEN /\ nConn' = 1
               /\ stream' = [stream EXCEPT ![ProbeConn] = "pending"]
               /\ backlog' = Append(backlog, ProbeConn)
               /\ ppc' = IF transport = "tls" THEN "handshake" ELSE "write"
          ELSE /\ ppc' = "failed"
               /\ UNCHANGED <<nConn, stream, backlog>>
    /\ UNCHANGED <<envVars, mainVars, hsConn, nAccept, acceptFailed, secure, hpc, buf, n, hw,
                   got, inbox, sentOn, peerClosed, broken, wrote, out, probeVars>>

\* The probe process ends with r: its stream is dropped, which the handler
\* reads as end-of-stream if the server still has the connection.
ProbeEnds(r) ==
    /\ ppc' = r
    /\ peerClosed' = [peerClosed EXCEPT
                        ![ProbeConn] = stream[ProbeConn] \in {"pending", "handshake", "open"}]
    /\ rx' = <<>>

\* connector.connect(hostname, conn).await?: the client side of the
\* handshake, once the server has taken the socket.  It fails when the
\* server's certificate does not verify or the server's side failed, and
\* returns the stream when the server's side has completed.
probe_handshake ==
    /\ ppc = "handshake"
    /\ stream[ProbeConn] # "pending"
    /\ CASE ~peerTrusted      -> ProbeEnds("failed")
         [] secure[ProbeConn] -> ppc' = "write" /\ UNCHANGED <<peerClosed, rx>>
         [] OTHER             -> stream[ProbeConn] \in {"hs_failed", "closed"}
                                 /\ ProbeEnds("failed")
    /\ UNCHANGED <<envVars, mainVars, acceptVars, stream, secure, hpc, buf, n, hw, got,
                   inbox, sentOn, broken, wrote, out, sent, stdout, rxEof, rxBroken, nSent>>

\* The server still has its end of the probe's connection, unbroken.
ProbeConnAlive == stream[ProbeConn] \in {"pending", "open"} /\ ~broken[ProbeConn]

\* send_hello shuts down the sending side of its stream after the
\* greeting: the handler reads end-of-stream behind it.
probe_write_shutdown ==
    /\ ppc = "write"
    /\ \E ok \in (IF ProbeConnAlive THEN {TRUE} ELSE BOOLEAN) :
          IF ok
             THEN /\ sent' = sent \o Hello
                  /\ ppc' = "copy"
                  /\ inbox' = [inbox EXCEPT ![ProbeConn] =
                                 IF ProbeConnAlive THEN @ \o Hello ELSE @]
                  /\ sentOn' = [sentOn EXCEPT ![ProbeConn] =
                                  IF ProbeConnAlive THEN @ + Len(Hello) ELSE @]
                  /\ peerClosed' = [peerClosed EXCEPT ![ProbeConn] = ProbeConnAlive]
                  /\ rx' = rx
             ELSE /\ ProbeEnds("failed")
                  /\ UNCHANGED <<sent, inbox, sentOn>>
    /\ UNCHANGED <<envVars, mainVars, acceptVars, stream, secure, hpc, buf, n, hw, got,
                   broken, wrote, out, stdout, rxEof, rxBroken, nSent>>

\* conn.write_all(req.as_bytes()).await? of the probe process.  On a
\* connection the server has closed or that is broken the write may still
\* be taken by the probe's kernel, or fail.
probe_write ==
    /\ ppc = "write"
    /\ \E ok \in (IF ProbeConnAlive THEN {TRUE} ELSE BOOLEAN) :
          IF ok
             THEN /\ sent' = sent \o Hello
                  /\ ppc' = "copy"
                  /\ inbox' = [inbox EXCEPT ![ProbeConn] =
                                 IF ProbeConnAlive THEN @ \o Hello ELSE @]
                  /\ sentOn' = [sentOn EXCEPT ![ProbeConn] =
                                  IF ProbeConnAlive THEN @ + Len(Hello) ELSE @]
                  /\ UNCHANGED <<peerClosed, rx>>
             ELSE /\ ProbeEnds("failed")
                  /\ UNCHANGED <<sent, inbox, sentOn>>
    /\ UNCHANGED <<envVars, mainVars, acceptVars, stream, secure, hpc, buf, n, hw, got,
                   broken, wrote, out, stdout, rxEof, rxBroken, nSent>>

\* io::copy(&mut conn, &mut io::stdout()) of the probe process: one chunk
probe_copy ==
    /\ ppc = "copy"
    /\ rx # <<>>
    /\ \E k \in 1..Len(rx) :
          /\ stdout' = stdout \o SubSeq(rx, 1, k)
          /\ rx' = SubSeq(rx, k + 1, Len(rx))
    /\ UNCHANGED <<envVars, ppc, mainVars, acceptVars, connVars, sent, rxEof, rxBroken, nSent>>

\* io::copy read end-of-stream, the server's end being closed: Ok(())
probe_copy_eof ==
    /\ ppc = "copy"
    /\ rx = <<>>
    /\ stream[ProbeConn] = "closed"
    /\ ProbeEnds("done")
    /\ UNCHANGED <<envVars, mainVars, acceptVars, stream, secure, hpc, buf, n, hw, got,
                   inbox, sentOn, broken, wrote, out, sent, stdout, rxEof, rxBroken, nSent>>

\* io::copy(..).await? returned Err: a read of the stream or a write to
\* standard output failed.
probe_copy_err ==
    /\ ppc = "copy"
    /\ ProbeEnds("failed")
    /\ UNCHANGED <<envVars, mainVars, acceptVars, stream, secure, hpc, buf, n, hw, got,
                   inbox, sentOn, broken, wrote, out, sent, stdout, rxEof, rxBroken, nSent>>

\* The steps the two processes take when nothing fails: a task that can
\* run is run by its runtime, and a handshake both sides take part in
\* completes.
PairRuns ==
    \/ main_tcp
    \/ main_tls
    \/ run
    \/ TcpTransport_bind
    \/ TlsTransport_bind
    \/ TcpTransport_accept_ok
    \/ TlsTransport_accept_tcp
    \/ TlsTransport_accept_ok
    \/ \E c \in Conns : echo_read(c)
    \/ \E c \in Conns : echo_read_eof(c)
    \/ \E c \in Conns : echo_write(c)
    \/ probe_start
    \/ probe_connect
    \/ probe_handshake
    \/ probe_write
    \/ probe_copy
    \/ probe_copy_eof

\* The failures of the pair: of accept, of the handshake, of the
\* connection, of the probe's copy.
PairFails ==
    \/ accept_err
    \/ TlsTransport_accept_hs_err
    \/ \E c \in Conns : peer_reset(c)
    \/ \E c \in Conns : echo_read_err(c)
    \/ \E c \in Conns : echo_write_err(c)
    \/ probe_copy_err

NextPair == PairRuns \/ PairFails

\* A server and a probe of the same transport, both with main's TlsConfig.
InitPair ==
    /\ InitWith({MainConfig}, {"start"})
    /\ transport \in {"tcp", "tls"}
    /\ mode = "serve"

SpecPair == InitPair /\ [][NextPair]_vars /\ WF_vars(PairRuns)

\* ===================================================================
\* Properties
\* ===================================================================
\* C1: in echo, a read that returns N > 0 bytes is followed by one write of
\* the whole buffer, not only of the N bytes: the read leaves the cells
\* behind N as earlier reads of the connection left them, zero where no
\* earlier read reached, the buffer is not touched between the read and the
\* write, and the write hands the peer all BufLen cells.
C1_WholeBufferWritten ==
    [][\A c \in Conns :
         /\ (hpc[c] = "reading" /\ hpc'[c] = "writing") =>
               /\ n'[c] \in 1..BufLen
               /\ \A i \in (n'[c] + 1)..BufLen :
                     /\ buf'[c][i] = buf[c][i]
                     /\ (i > hw[c] => buf'[c][i] = 0)
         /\ hpc[c] = "writing" =>
               /\ hpc'[c] \in {"writing", "reading", "ret_err", "cancelled"}
               /\ hpc'[c] \in {"writing", "reading"} => buf'[c] = buf[c]
         /\ (hpc[c] = "writing" /\ hpc'[c] = "reading") =>
               /\ Len(out'[c]) = BufLen
               /\ out'[c] = buf[c]
               /\ \A i \in (n[c] + 1)..BufLen : i > hw[c] => out'[c][i] = 0
      ]_vars

\* A short read after a longer one has been echoed: the write carried a
\* byte of the earlier read behind the byte just read.
C1_Witness ==
    \E c \in Conns :
       /\ hpc[c] = "reading"
       /\ wrote[c]
       /\ n[c] < hw[c]
       /\ Len(out[c]) = BufLen
       /\ out[c][hw[c]] # 0

\* C2: whatever the peer sent and however the reads split it, the response
\* written for a read starts with the bytes that read returned.
C2_EchoPrefix ==
    \A c \in Conns :
       (hpc[c] = "reading" /\ wrote[c]) =>
          /\ n[c] = Len(got[c])
          /\ n[c] \in 1..BufLen
          /\ Len(out[c]) >= n[c]
          /\ SubSeq(out[c], 1, n[c]) = got[c]

\* A read capped by the capacity of the buffer, with more bytes of the peer
\* still unread, has been echoed.
C2_Witness ==
    \E c \in Conns :
       /\ hpc[c] = "reading"
       /\ wrote[c]
       /\ n[c] = BufLen
       /\ inbox[c] # <<>>
       /\ SubSeq(out[c], 1, BufLen) = got[c]

\* C3: with several connections open at once, each peer sending its own
\* bytes, a handler touches only its own connection: a step of the handler
\* of c leaves the unread bytes, the delivered bytes and the buffer of every
\* other connection as they were, and under every interleaving the buffer of
\* c and the bytes delivered to the peer of c hold nothing but zeroes and
\* bytes the peer of c sent.
C3_NoCrossTalk ==
    [][\A c \in Conns :
         /\ (Running(c) /\ hpc'[c] # hpc[c] /\ pc' = pc) =>
               \A d \in Conns \ {c} :
                  /\ hpc'[d] = hpc[d]
                  /\ inbox'[d] = inbox[d]
                  /\ out'[d] = out[d]
                  /\ buf'[d] = buf[d]
         /\ \A i \in 1..BufLen : buf'[c][i] \in {0} \cup PayloadBytes(c)
         /\ \A i \in 1..Len(out'[c]) : out'[c][i] \in {0} \cup PayloadBytes(c)
         /\ \A i \in 1..Len(got'[c]) : got'[c][i] \in PayloadBytes(c)
      ]_vars

\* Two handlers run at the same time and each has echoed bytes of its own
\* peer.
C3_Witness ==
    \E c, d \in Conns :
       /\ c # d
       /\ Running(c) /\ Running(d)
       /\ wrote[c] /\ wrote[d]
       /\ out[c][1] \in PayloadBytes(c)
       /\ out[d][1] \in PayloadBytes(d)

\* C4: a read or write failure in the handler of one connection closes that
\* connection and nothing else: the step leaves the main task, its result,
\* the listener, the accept loop and every other handler and stream as they
\* were, and while no accept has failed the loop is still accepting, with
\* no error recorded, however many handlers have failed.
C4_HandlerFailureContained ==
    [][\A c \in Conns :
         /\ (Running(c) /\ hpc'[c] = "ret_err") =>
               /\ stream'[c] = "closed"
               /\ UNCHANGED <<mainVars, acceptVars>>
               /\ \A d \in Conns \ {c} :
                     /\ hpc'[d] = hpc[d]
                     /\ stream'[d] = stream[d]
                     /\ buf'[d] = buf[d]
                     /\ out'[d] = out[d]
                     /\ inbox'[d] = inbox[d]
         /\ (hpc'[c] = "ret_err" /\ ~acceptFailed') =>
               /\ pc' \in {"accept", "handshake"}
               /\ err' = "none"
               /\ listening'
      ]_vars

\* One handler has failed, another is in the middle of an echo, a further
\* connection is waiting and the loop is at accept.
C4_Witness ==
    \E c, d \in Conns :
       /\ c # d
       /\ hpc[c] = "ret_err"
       /\ stream[c] = "closed"
       /\ hpc[d] = "writing"
       /\ pc = "accept"
       /\ err = "none"

\* C5: under tls, a failed server-side handshake on one inbound connection
\* drops that connection only: the listener stays and the loop goes on to
\* the next accept.
C5_HandshakeFailureKeepsAccepting ==
    [][(pc = "handshake" /\ hsConn \in Conns /\ stream'[hsConn] = "hs_failed") =>
          (pc' = "accept" /\ listening')]_vars

\* C6: the first call of accept that returns an error ends the accept loop:
\* from then on the main task is past the loop, no call of accept returns
\* and no handler is spawned.
C6_AcceptErrorEndsLoop ==
    [][/\ acceptFailed' => pc' = "exited"
       /\ acceptFailed =>
             /\ nAccept' = nAccept
             /\ backlog' = backlog
             /\ \A c \in Conns : hpc[c] = "none" => hpc'[c] = "none"
      ]_vars

\* accept has failed while a connection was waiting in the backlog: it is
\* never accepted and gets no handler.
C6_Witness ==
    /\ acceptFailed
    /\ pc = "exited"
    /\ backlog # <<>>
    /\ hpc[Head(backlog)] = "none"
    /\ nAccept >= 2

\* C7: a handler, once spawned, runs until its own read returns
\* end-of-stream or its own read or write fails; nothing else ends it.
C7_HandlerRunsToCompletion ==
    [][\A c \in Conns :
         Running(c) =>
            /\ hpc'[c] \in {"reading", "writing", "ret_ok", "ret_err"}
            /\ hpc'[c] = "ret_ok" => (peerClosed[c] /\ inbox[c] = <<>>)
            /\ hpc'[c] = "ret_err" => broken[c]
      ]_vars

\* C8: a successful accept spawns the handler and goes back to accept
\* without waiting for it or for any handler spawned before, and whenever
\* the loop is at accept with a connection waiting, the accept can return,
\* whatever the number of handlers still running.
C8_SpawnWithoutWaiting ==
    [][/\ \A c \in Conns :
            (hpc[c] = "none" /\ hpc'[c] = "reading") =>
               /\ pc' = "accept"
               /\ \A d \in Conns \ {c} : hpc'[d] = hpc[d]
       /\ (pc = "accept" /\ backlog # <<>>) =>
             ENABLED (TcpTransport_accept_ok \/ TlsTransport_accept_tcp)
      ]_vars

\* Every connection the environment can open has a running handler, and
\* the loop is back at accept.
C8_Witness ==
    /\ pc = "accept"
    /\ \A c \in Conns : Running(c)
    /\ nAccept = MaxConn

\* C9: a peer that connects, sends nothing and closes: the handler has
\* read and written nothing, its first read returns zero, and the step in
\* which it leaves the read is echo returning Ok (or the process ending)
\* with write_all never called, nothing delivered to the peer and the
\* stream closed.
C9_EmptyClientCleanClose ==
    [][\A c \in Conns :
         (hpc[c] = "reading" /\ peerClosed[c] /\ sentOn[c] = 0 /\ ~broken[c]) =>
            /\ hw[c] = 0 /\ buf[c] = ZeroBuf /\ ~wrote[c] /\ out[c] = <<>>
            /\ hpc'[c] # "reading" =>
                  /\ hpc'[c] \in {"ret_ok", "cancelled"}
                  /\ ~wrote'[c]
                  /\ out'[c] = <<>>
                  /\ stream'[c] = "closed"
      ]_vars

\* A handler has returned Ok without ever calling write_all: its first
\* read returned zero.
C9_Witness ==
    \E c \in Conns :
       /\ hpc[c] = "ret_ok"
       /\ stream[c] = "closed"
       /\ ~wrote[c]
       /\ out[c] = <<>>

\* C10: under tls, accept returns a stream only after the server side of
\* the handshake on that socket has completed: a connection has a handler,
\* or has had a byte read or written by one, only if its handshake is done,
\* and a handler is spawned only by the step that completes the handshake.
C10_HandlerOnlyAfterHandshake ==
    [][transport = "tls" =>
          \A c \in Conns :
             /\ (hpc'[c] # "none" \/ wrote'[c] \/ hw'[c] > 0 \/ out'[c] # <<>>) => secure'[c]
             /\ (hpc[c] = "none" /\ hpc'[c] # "none") =>
                   (pc = "handshake" /\ hsConn = c /\ ~secure[c])
      ]_vars

\* A tls connection whose handshake completed has been echoed to.
C10_Witness ==
    /\ transport = "tls"
    /\ \E c \in Conns : secure[c] /\ wrote[c] /\ hw[c] > 0

\* C11: a TLS client whose trust store does not validate the server's
\* identity fails in connect with an error: the probe returns from connect
\* with the verification error (or the TCP connect error when nothing
\* listens), never reaches the write of the greeting, and never copies a
\* received byte to standard output.
C11_UntrustedServerFailsInConnect ==
    (transport = "tls" /\ mode = "client" /\ caOk /\ ~peerTrusted) =>
        /\ pc \in {"main", "run", "connect", "exited"}
        /\ sent = <<>>
        /\ stdout = <<>>
        /\ pc = "exited" => err = (IF peerUp THEN "verify" ELSE "connect")

\* The server is up, the handshake was refused by the client's trust
\* store, and the probe has returned the error.
C11_Witness ==
    /\ transport = "tls"
    /\ mode = "client"
    /\ peerUp
    /\ ~peerTrusted
    /\ pc = "exited"
    /\ err = "verify"
    /\ sent = <<>>

\* C12: a TLS server whose identity bundle cannot be opened with the
\* passphrase fails in bind before the listening socket is opened: the
\* listener never exists, accept is never reached, no connection is taken,
\* and serve_echo returns the bind error.
C12_BadIdentityFailsBeforeListen ==
    (transport = "tls" /\ mode = "serve" /\ ~identOk) =>
        /\ ~listening
        /\ pc \in {"main", "run", "bind", "exited"}
        /\ nAccept = 0
        /\ nConn = 0
        /\ \A c \in Conns : stream[c] = "none" /\ hpc[c] = "none"
        /\ (pc = "exited" /\ caOk) => err = "Failed to bind"

\* The address was free, the bundle did not open, bind has failed.
C12_Witness ==
    /\ transport = "tls"
    /\ mode = "serve"
    /\ caOk
    /\ ~identOk
    /\ addrFree
    /\ pc = "exited"
    /\ err = "Failed to bind"
    /\ ~listening

\* C13: a TLS bind called with the identity bundle path or its passphrase
\* absent returns an error value: main is never left by a panic, and when
\* it has ended it has returned the bind error.
C13_MissingIdentityIsAnError ==
    (transport = "tls" /\ mode = "serve" /\ (~cfg.pkcs12 \/ ~cfg.pkcs12_password)) =>
        /\ pc # "panicked"
        /\ (pc = "exited" /\ (~cfg.trusted_root \/ caOk)) => err = "Failed to bind"

\* C14: an invocation whose transport is not tcp or tls, or whose mode is
\* not serve or client, ends with the unknown-transport or the unknown-mode
\* error and performs no bind, accept or connect: main never reaches one of
\* those positions, no listener exists, and when main has ended its error
\* is one of the two.
C14_BadSelectorsRejected ==
    (transport \notin {"tcp", "tls"} \/ mode \notin {"serve", "client"}) =>
        /\ pc \in {"main", "run", "exited"}
        /\ ~listening
        /\ nAccept = 0
        /\ sent = <<>>
        /\ pc = "exited" => err \in {"unknown transport", "unknown mode"}

\* C15: the probe connects once, writes the greeting once, and from then on
\* only copies received bytes to standard output; it terminates when the
\* peer has closed and everything received is copied (success) or on an I/O
\* error (failure), and in no other case.  Step by step: connect is entered
\* only from run and left only towards the write or the exit; the bytes
\* written change only at the write, from nothing to the greeting; standard
\* output changes only in the copy, by a prefix of the pending bytes; and
\* the copy is left only to the exit, with Ok after end-of-stream with
\* nothing pending, or with the I/O error when the stream failed.
C15_ProbeConnectWriteCopy ==
    [][ mode = "client" =>
          /\ pc' = "connect" => pc \in {"run", "connect"}
          /\ (pc = "connect" /\ pc' # pc) => pc' \in {"write", "exited", "panicked"}
          /\ (pc = "connect" /\ pc' = "exited") => err' \in {"connect", "verify"}
          /\ sent' # sent => pc = "write" /\ sent = <<>> /\ sent' = Hello /\ pc' = "copy"
          /\ (pc = "write" /\ pc' # pc) =>
                \/ pc' = "copy" /\ sent' = Hello
                \/ pc' = "exited" /\ err' = "io" /\ rxBroken
          /\ stdout' # stdout =>
                /\ pc = "copy" /\ pc' = "copy"
                /\ \E k \in 1..Len(rx) :
                      /\ stdout' = stdout \o SubSeq(rx, 1, k)
                      /\ rx' = SubSeq(rx, k + 1, Len(rx))
          /\ (pc = "copy" /\ pc' # pc) =>
                /\ pc' = "exited"
                /\ \/ rxEof /\ rx = <<>> /\ ~rxBroken /\ err' = "none"
                   \/ rxBroken /\ err' = "io"
          /\ pc = "exited" => pc' = "exited"
      ]_vars

\* The probe wrote the greeting, copied bytes it received, and returned Ok
\* after the peer closed.
C15_Witness ==
    /\ mode = "client"
    /\ pc = "exited"
    /\ err = "none"
    /\ sent = Hello
    /\ stdout # <<>>
    /\ rxEof
    /\ rx = <<>>

\* C16: serve_echo calls bind once per run, and when bind fails it returns
\* an error with no accept attempted and no handler spawned.  Step by step:
\* bind is entered only from run and never again once left; a bind that
\* cannot succeed is left only to the exit, with the error 'Failed to bind'
\* and no listener; and a step that leaves bind for the accept loop has
\* created the listener.  After a failed bind no accept has returned or
\* failed and no handler exists.
C16_BindOnceAndFatal ==
    [][ mode = "serve" =>
          /\ pc' = "bind" => pc \in {"run", "bind"}
          /\ (pc = "bind" /\ pc' # pc) => pc' \in {"accept", "exited", "panicked"}
          /\ (pc = "bind" /\ pc' # pc
                /\ (~addrFree \/ (transport = "tls" /\ ~identOk))) =>
                /\ pc' = "exited"
                /\ err' = "Failed to bind"
                /\ ~listening'
          /\ (pc = "bind" /\ pc' = "accept") => listening' /\ err' = "none"
          /\ (pc' = "exited" /\ err' = "Failed to bind") =>
                /\ nAccept' = 0
                /\ ~acceptFailed'
                /\ hsConn' = 0
                /\ \A c \in Conns : hpc'[c] = "none" /\ stream'[c] = "none"
      ]_vars

\* The plain transport could not bind the address and serve_echo has
\* returned the error.
C16_Witness ==
    /\ transport = "tcp"
    /\ mode = "serve"
    /\ ~addrFree
    /\ pc = "exited"
    /\ err = "Failed to bind"
    /\ ~listening
    /\ nAccept = 0

\* C17: every stream a successful accept returned is handed to exactly one
\* echo handler and is released when that handler ends, on every path.  A
\* stream is open exactly while the handler it was given to runs; no two
\* handlers have the same stream; a handler that has ended (Ok at
\* end-of-stream, Err of a read or of a write, or dropped with the runtime)
\* has left its stream closed; the accept loop holds a socket only during
\* the handshake, before accept returns it; and each successful accept has
\* started one handler.
C17_StreamOwnedByOneHandler ==
    /\ \A c \in Conns : stream[c] = "open" <=> Running(c)
    /\ \A c, d \in Conns :
          (c # d /\ hpc[c] # "none" /\ hpc[d] # "none") => StreamOf(c) # StreamOf(d)
    /\ \A c \in Conns :
          hpc[c] \in {"ret_ok", "ret_err", "cancelled"} => stream[StreamOf(c)] = "closed"
    /\ \A c \in Conns : hsConn = c => stream[c] = "handshake" /\ hpc[c] = "none"
    /\ Cardinality({c \in Conns : hpc[c] # "none"})
          = nAccept - (IF acceptFailed THEN 1 ELSE 0)

\* One handler ended with Ok at end-of-stream and another with an Err
\* after it had echoed, both with their streams closed.
C17_Witness ==
    \E c, d \in Conns :
       /\ hpc[c] = "ret_ok"
       /\ hpc[d] = "ret_err"
       /\ wrote[d]
       /\ stream[c] = "closed"
       /\ stream[d] = "closed"

\* C18: under TLS the accept loop performs the handshake inline.  In a step
\* that leaves the handshake of a connection pending, no pending connection
\* is taken from the listener, no accept returns and no handler is spawned;
\* and while a handshake is pending the main task waits for it, with
\* neither form of accept enabled, however many connections are waiting.
C18_HandshakeBlocksAccept ==
    [][ (hsConn # 0 /\ stream'[hsConn] = "handshake") =>
          /\ pc = "handshake" /\ pc' = "handshake"
          /\ hsConn' = hsConn
          /\ Len(backlog') >= Len(backlog)
          /\ SubSeq(backlog', 1, Len(backlog)) = backlog
          /\ nAccept' = nAccept
          /\ \A c \in Conns : hpc[c] = "none" => hpc'[c] = "none"
          /\ ~ENABLED (TcpTransport_accept_ok \/ TlsTransport_accept_tcp)
      ]_vars

\* A handshake is pending and a connection that arrived after it waits
\* at the listener.
C18_Witness ==
    /\ transport = "tls"
    /\ pc = "handshake"
    /\ hsConn # 0
    /\ backlog # <<>>
    /\ \A i \in 1..Len(backlog) : backlog[i] > hsConn
    /\ stream[Head(backlog)] = "pending"

\* C20: when the accept loop ends because accept returned an error, the
\* failure of a.0.accept() or of the TLS handshake, serve_echo returns
\* success: the step in which accept fails takes main to its exit with no
\* error, the listener gone, and main's result stays Ok from then on.
C20_AcceptErrorExitsOk ==
    [][ /\ (~acceptFailed /\ acceptFailed') =>
            /\ pc \in {"accept", "handshake"}
            /\ pc' = "exited"
            /\ err' = "none"
            /\ ~listening'
        /\ acceptFailed => (pc' = "exited" /\ err' = "none")
      ]_vars

\* A TLS handshake failed after an earlier connection was served, and the
\* process has exited with Ok.
C20_Witness ==
    /\ acceptFailed
    /\ pc = "exited"
    /\ err = "none"
    /\ ~listening
    /\ \E c \in Conns : stream[c] = "hs_failed"
    /\ \E c \in Conns : hpc[c] # "none"

\* Nothing has failed in the pair so far: the server has not returned (it
\* returns only after a failed bind, accept or handshake), no connection
\* is broken, no handler and not the probe has ended with an error.
PairIntact ==
    /\ pc # "exited"
    /\ ppc # "failed"
    /\ \A c \in Conns : ~broken[c] /\ hpc[c] # "ret_err"

\* The probe and its handler wait on each other: the greeting is written
\* and read, every echoed byte is on standard output, the handler awaits a
\* read on an open stream whose peer has not closed, and the probe awaits
\* a read in io::copy.
PairWaiting ==
    /\ ppc = "copy"
    /\ sent = Hello
    /\ rx = <<>>
    /\ stdout # <<>>
    /\ Len(stdout) % BufLen = 0
    /\ hpc[ProbeConn] = "reading"
    /\ stream[ProbeConn] = "open"
    /\ inbox[ProbeConn] = <<>>
    /\ ~peerClosed[ProbeConn]
    /\ pc = "accept"

\* C19: in a run of the probe against the echo server in which nothing
\* fails, the probe never closes its sending side and the handler returns
\* only at end-of-stream, so the handler never ends and the probe never
\* terminates: from some point on, with the echoed bytes delivered, both
\* wait on each other for ever.
C19_ProbeAndEchoWaitForever == ([]PairIntact) => <>[]PairWaiting

\* Nothing has failed, the echo of the greeting is on standard output, and
\* both sides are waiting.
C19_Witness ==
    /\ PairIntact
    /\ PairWaiting
    /\ Len(stdout) >= Len(Hello)
    /\ hpc[ProbeConn] = "reading"
    /\ ppc = "copy"

====
